---- MODULE Spec2Model ----
(***************************************************************************)
(* The data pipelines of anomalyAENN: src/data/basePreprocessor.py         *)
(* (BasePreprocessor, CreditProcessor, ECGProcessor, data_factory) and     *)
(* anomalyDetectorApp/data/exampleData.py (ExampleData).                   *)
(*                                                                         *)
(* A table is a sequence of rows, a label vector a sequence of numbers,    *)
(* aligned by position as the numpy arrays are.  A row is a record         *)
(* [id, x]: x is the sequence of its cells and id is the row's position in *)
(* the file it was read from (a history value the arrays do not hold; no   *)
(* operation reads it).  A cell is a record [num, den, rad, dtype] standing *)
(* for the number num / (den * sqrt(rad)) held at precision dtype; a cell  *)
(* with den = 0 is the result of a division by zero (nan or +-inf).        *)
(*                                                                         *)
(* The library calls are modelled by what the libraries do: sklearn's      *)
(* train_test_split (ShuffleSplit / StratifiedShuffleSplit), imblearn's    *)
(* RandomUnderSampler, sklearn's StandardScaler, numpy's random.choice.    *)
(* A random draw is a nondeterministic choice of the rows drawn.  Rows     *)
(* with the same cells and the same label are interchangeable, so of the   *)
(* draws that differ only in which of several equal rows they take, the    *)
(* one taking the earliest positions stands for all; the rows drawn are    *)
(* kept in ascending position (the libraries return them permuted).        *)
(***************************************************************************)
EXTENDS Integers, Sequences, FiniteSets

VARIABLES
    pc,             \* position in the construction of the object
    dataset_type,   \* the key data_factory was called with ("" before the call)
    cls,            \* class of the object under construction ("none": no object)
    err,            \* the exception that ended the construction ("" : none)
    file,           \* rows of the file (or URL) the loader reads
    raw_data,       \* self.raw_data
    data,           \* self.data
    labels,         \* self.labels
    train_data,     \* self.train_data
    test_data,      \* self.test_data
    train_labels,   \* self.train_labels
    test_labels,    \* self.test_labels
    min_val,        \* min_val of _normalize (0 until fitted)
    max_val,        \* max_val of _normalize (0 until fitted)
    scaler,         \* the fitted StandardScaler of CreditProcessor._normalize
    normal_train,   \* self.normal_train
    normal_test,    \* self.normal_test
    anom_train,     \* self.anom_train
    anom_test,      \* self.anom_test
    ret             \* the pair get_normalized_data returned last

vars == <<pc, dataset_type, cls, err, file, raw_data, data, labels, train_data,
          test_data, train_labels, test_labels, min_val, max_val, scaler,
          normal_train, normal_test, anom_train, anom_test, ret>>

(***************************************************************************)
(* Bounds of the model.                                                    *)
(***************************************************************************)
\* Longest file of the exhaustive family of small files.
MaxRows == 6

\* Largest minority class of the fraud-like files.
MaxMinority == 2

(***************************************************************************)
(* Program constants.                                                      *)
(***************************************************************************)
\* test_size=0.2 as the fraction 1 / TestSizeDen.
TestSizeDen == 5

\* sampling_strategy=.1 as the fraction 1 / SamplingDen.
SamplingDen == 10

(***************************************************************************)
(* Arithmetic and sequence helpers.                                        *)
(***************************************************************************)
Min2(a, b) == IF a <= b THEN a ELSE b

CeilDiv(a, b) == (a + b - 1) \div b

\* The range lo..hi of a set of positions, lowest k of them: by halving.
RECURSIVE Lowest(_, _, _, _)
Lowest(P, lo, hi, k) ==
    IF k <= 0 THEN {}
    ELSE IF Cardinality(P) <= k THEN P
    ELSE LET mid == (lo + hi) \div 2
             L == {i \in P : i <= mid}
         IN  IF Cardinality(L) >= k THEN Lowest(L, lo, mid, k)
             ELSE L \cup Lowest(P \ L, mid + 1, hi, k - Cardinality(L))

\* s[T] for a set T of positions, in ascending position: numpy's s[idx].
RECURSIVE TakeRange(_, _, _, _)
TakeRange(s, T, lo, hi) ==
    IF lo > hi THEN <<>>
    ELSE IF lo = hi THEN (IF lo \in T THEN <<s[lo]>> ELSE <<>>)
    ELSE LET mid == (lo + hi) \div 2
         IN  TakeRange(s, T, lo, mid) \o TakeRange(s, T, mid + 1, hi)

Take(s, T) == TakeRange(s, T, 1, Len(s))

\* Positions of the label vector y holding the label l.
Where(y, l) == {i \in DOMAIN y : y[i] = l}

\* np.unique(y): the classes of a label vector.
Classes(y) == {y[i] : i \in DOMAIN y}

RECURSIVE SumOver(_, _)
SumOver(S, f) ==
    IF S = {} THEN 0
    ELSE LET e == CHOOSE e \in S : TRUE IN f[e] + SumOver(S \ {e}, f)

(***************************************************************************)
(* Cells.                                                                  *)
(***************************************************************************)
\* A float64 cell read from a file.
Raw(v) == [num |-> v, den |-> 1, rad |-> 1, dtype |-> "float64"]

\* tf.cast(_, tf.float32) of one cell: the value rounded to single precision.
Cast32(c) == [c EXCEPT !.dtype = "float32"]

\* .numpy() stacked with the float64 labels: the float32 value widened.
Widen(c) == [c EXCEPT !.dtype = IF c.dtype = "float32" THEN "float32->float64" ELSE c.dtype]

\* The cell is a number of the closed interval [0, 1].
InUnit(c) == c.rad = 1 /\ c.den > 0 /\ 0 <= c.num /\ c.num <= c.den

\* All cells of a table.
Cells(t) == {t[i].x[j] : i \in DOMAIN t, j \in 1..(IF Len(t) = 0 THEN 0 ELSE Len(t[1].x))}

Ids(t) == {t[i].id : i \in DOMAIN t}

(***************************************************************************)
(* Random draws.                                                           *)
(***************************************************************************)
\* What a draw can tell rows apart by: the cells and the label.
Content(t, y, i) == <<t[i].x, y[i]>>

\* The draws of k of the positions P of the table t with labels y, the rows
\* of the contents C still to be drawn from.
RECURSIVE DrawsBy(_, _, _, _, _)
DrawsBy(t, y, P, C, k) ==
    IF C = {} THEN (IF k = 0 THEN {{}} ELSE {})
    ELSE LET c == CHOOSE c \in C : TRUE
             Pc == {i \in P : Content(t, y, i) = c}
             rest == P \ Pc
             least == IF k > Cardinality(rest) THEN k - Cardinality(rest) ELSE 0
         IN  UNION {{Lowest(Pc, 1, Len(t), m) \cup T : T \in DrawsBy(t, y, rest, C \ {c}, k - m)} :
                    m \in least..Min2(Cardinality(Pc), k)}

\* rng.choice(P, k, replace=False), rng.permutation(P)[:k]: k of the positions P.
Draws(t, y, P, k) == DrawsBy(t, y, P, {Content(t, y, i) : i \in P}, k)

(***************************************************************************)
(* The files the loaders may find.  A raw row is <<c0, c1, y>>: two        *)
(* numeric columns and the label column.                                   *)
(***************************************************************************)
FeatureRows == {<<0, 0>>, <<1, 2>>, <<2, 1>>}

RawRows == {f \o <<y>> : f \in FeatureRows, y \in {0, 1}}

RowKey(r) == 9 * r[3] + 3 * r[1] + r[2]

\* The files of n rows in ascending RowKey (a split draws any rows, so the
\* order of the rows of a file adds no behaviour).
RECURSIVE SortedFrom(_, _)
SortedFrom(n, lo) ==
    IF n = 0 THEN {<<>>}
    ELSE UNION {{<<r>> \o s : s \in SortedFrom(n - 1, RowKey(r))} :
                r \in {q \in RawRows : RowKey(q) >= lo}}

SmallFiles == UNION {SortedFrom(n, 0) : n \in 1..MaxRows}

\* k rows with the label y, their cells cycling through cyc.
Block(cyc, y, k) == [j \in 1..k |-> cyc[((j - 1) % Len(cyc)) + 1] \o <<y>>]

FeatureCycle == <<<<0, 0>>, <<1, 2>>, <<2, 1>>>>

\* The cells of the fraud-like files: two kinds of rows, or every row alike.
FraudCycles == {<<<<0, 0>>, <<1, 2>>>>, <<<<2, 1>>>>}

\* Fraud-like files: m rows of the minority class y and, of the other class,
\* one row less than, exactly, and one row more than SamplingDen times m.
FraudFiles ==
    {Block(cyc, 1 - y, SamplingDen * m + d) \o Block(cyc, y, m) :
        m \in 1..MaxMinority, d \in {-1, 0, 1}, y \in {0, 1}, cyc \in FraudCycles}

\* Files with a label that is neither 0 nor 1: k rows labelled 2, j labelled 0.
OddLabelFiles ==
    {Block(FeatureCycle, 2, k) \o Block(FeatureCycle, 0, j) : k \in 1..3, j \in 0..3}

\* 8 rows, 2 labelled 0 and 6 labelled 1: the stratified split's rounding ties.
TieFile == Block(FeatureCycle, 1, 6) \o Block(FeatureCycle, 0, 2)

\* The ECG-like scenario: 100 rows, 80 labelled 1 (normal) and 20 labelled 0.
EcgScenario == Block(<<<<1, 2>>>>, 1, 80) \o Block(<<<<2, 1>>>>, 0, 20)

\* The fraud-like scenario: 1000 rows of Class 0 and 50 rows of Class 1.
FraudScenario == Block(<<<<1, 2>>>>, 0, 1000) \o Block(<<<<2, 1>>>>, 1, 50)

Files == SmallFiles \cup FraudFiles \cup OddLabelFiles \cup {TieFile, EcgScenario, FraudScenario}

(***************************************************************************)
(* Construction.                                                           *)
(***************************************************************************)
NoStats == [count |-> 0, sum |-> 0, sumsq |-> 0]

NoRet == [data |-> <<>>, labels |-> <<>>, called |-> FALSE]

Init ==
    /\ pc = "start"
    /\ dataset_type = ""
    /\ cls = "none"
    /\ err = ""
    /\ file \in Files
    /\ raw_data = <<>>
    /\ data = <<>>
    /\ labels = <<>>
    /\ train_data = <<>>
    /\ test_data = <<>>
    /\ train_labels = <<>>
    /\ test_labels = <<>>
    /\ min_val = 0
    /\ max_val = 0
    /\ scaler = NoStats
    /\ normal_train = <<>>
    /\ normal_test = <<>>
    /\ anom_train = <<>>
    /\ anom_test = <<>>
    /\ ret = NoRet

\* __data_type_map
data_type_map == [ecg_data |-> "ECGProcessor", creditcard_data |-> "CreditProcessor"]

\* The keys a caller may pass to data_factory.
Keys == {"ecg_data", "creditcard_data", "ecg", "credit"}

\* A factory that falls back to the ECG pipeline for an unknown key.
FactoryOutcomeDefault(key) ==
    IF key \notin DOMAIN data_type_map
        THEN [pc |-> "init", cls |-> "ECGProcessor", err |-> ""]
        ELSE [pc |-> "init", cls |-> data_type_map[key], err |-> ""]

\* What data_factory does with the key: raise, or start which constructor.
FactoryOutcome(key) ==
    IF key \notin DOMAIN data_type_map
        THEN [pc |-> "failed", cls |-> "none", err |-> "FileNotFoundError"]
        ELSE [pc |-> "init", cls |-> data_type_map[key], err |-> ""]

\* data_factory(dataset_type), up to the call of the constructor.
data_factory(key) ==
    /\ pc = "start"
    /\ dataset_type' = key
    /\ pc' = FactoryOutcome(key).pc
    /\ cls' = FactoryOutcome(key).cls
    /\ err' = FactoryOutcome(key).err
    /\ UNCHANGED <<file, raw_data, data, labels, train_data, test_data, train_labels,
                   test_labels, min_val, max_val, scaler, normal_train, normal_test,
                   anom_train, anom_test, ret>>

\* ExampleData(), called directly: no factory key maps to it.
ExampleDataNew ==
    /\ pc = "start"
    /\ pc' = "init"
    /\ cls' = "ExampleData"
    /\ UNCHANGED <<dataset_type, err, file, raw_data, data, labels, train_data, test_data,
                   train_labels, test_labels, min_val, max_val, scaler, normal_train,
                   normal_test, anom_train, anom_test, ret>>

\* self.labels of the class c for the raw rows raw.
LoadLabels(c, raw) ==
    [i \in DOMAIN raw |-> IF c = "CreditProcessor" THEN 1 - raw[i][3] ELSE raw[i][3]]

\* self.data of the class c for the raw rows raw: raw[:, 1:-1] or raw[:, :-1].
LoadData(c, raw) ==
    [i \in DOMAIN raw |->
        [id |-> i,
         x  |-> IF c = "CreditProcessor" THEN <<Raw(raw[i][2])>>
                ELSE <<Raw(raw[i][1]), Raw(raw[i][2])>>]]

\* The reads and assignments that open each __init__.
Load ==
    /\ pc = "init"
    /\ raw_data' = file
    /\ labels' = LoadLabels(cls, file)
    /\ data' = LoadData(cls, file)
    /\ pc' = "loaded"
    /\ UNCHANGED <<dataset_type, cls, err, file, train_data, test_data, train_labels,
                   test_labels, min_val, max_val, scaler, normal_train, normal_test,
                   anom_train, anom_test, ret>>

(***************************************************************************)
(* CreditProcessor._under_sample.                                          *)
(***************************************************************************)
Count(y, l) == Cardinality(Where(y, l))

\* The class RandomUnderSampler keeps whole: the least populated one.
MinorityClass(y) ==
    CHOOSE c \in Classes(y) : \A d \in Classes(y) : Count(y, c) < Count(y, d) \/ (Count(y, c) = Count(y, d) /\ c <= d)

\* The target read as a share of the resampled total instead of a ratio of
\* minority to majority rows.
MajorityTargetOfTotal(n_minority) == n_minority * (SamplingDen - 1)

\* int(n_minority / sampling_strategy): what is kept of the other class.  In
\* double precision int(n / 0.1) is 10 * n for every n below 1200.
MajorityTarget(n_minority) == n_minority * SamplingDen

\* A float sampling_strategy needs a binary target, and the rows asked of the
\* other class must be there to keep.
UnderSampleRaises(y) ==
    \/ Cardinality(Classes(y)) # 2
    \/ \E c \in Classes(y) : c # MinorityClass(y) /\ MajorityTarget(Count(y, MinorityClass(y))) > Count(y, c)

\* The sets of positions fit_resample may keep.
UnderSampleKeeps(t, y) ==
    LET minority == MinorityClass(y)
        other == CHOOSE c \in Classes(y) : c # minority
    IN  {Where(y, minority) \cup T :
            T \in Draws(t, y, Where(y, other), MajorityTarget(Count(y, minority)))}

\* v[idx_under]: the kept rows, class by class in ascending class.
BySortedClass(v, y, keep) ==
    LET lo == CHOOSE c \in Classes(y) : \A d \in Classes(y) : c <= d
        hi == CHOOSE c \in Classes(y) : \A d \in Classes(y) : d <= c
    IN  Take(v, keep \cap Where(y, lo)) \o Take(v, keep \cap Where(y, hi))

under_sample ==
    /\ pc = "loaded"
    /\ cls = "CreditProcessor"
    /\ IF UnderSampleRaises(labels)
         THEN /\ pc' = "failed"
              /\ err' = "ValueError"
              /\ UNCHANGED <<data, labels>>
         ELSE /\ \E keep \in UnderSampleKeeps(data, labels) :
                    /\ data' = BySortedClass(data, labels, keep)
                    /\ labels' = BySortedClass(labels, labels, keep)
              /\ pc' = "sampled"
              /\ UNCHANGED err
    /\ UNCHANGED <<dataset_type, cls, file, raw_data, train_data, test_data, train_labels,
                   test_labels, min_val, max_val, scaler, normal_train, normal_test,
                   anom_train, anom_test, ret>>

(***************************************************************************)
(* _train_split_data.                                                      *)
(***************************************************************************)
\* ceil(test_size * n_samples).  In double precision ceil(0.2 * n) is the
\* ceiling of n / 5 for every n below 1200.
TestCount(n) == CeilDiv(n, TestSizeDen)

TrainCount(n) == n - TestCount(n)

\* _approximate_mode(class_counts, n_draws): the rows drawn of each class.
\* Each class gets the floor of its share; the rows still to place go to the
\* classes of the largest remainders, ties broken at random.
ApproximateMode(cl, counts, n_draws) ==
    LET total == SumOver(cl, counts)
        floor == [c \in cl |-> (counts[c] * n_draws) \div total]
        rem == [c \in cl |-> (counts[c] * n_draws) % total]
    IN  {[c \in cl |-> floor[c] + b[c]] : b \in
            {b \in [cl -> {0, 1}] :
                /\ SumOver(cl, floor) + SumOver(cl, b) = n_draws
                /\ \A c, d \in cl : (rem[c] > rem[d] /\ b[d] = 1) => b[c] = 1}}

\* StratifiedShuffleSplit refuses these.
StratifiedRaises(y) ==
    \/ \E c \in Classes(y) : Count(y, c) < 2
    \/ TrainCount(Len(y)) < Cardinality(Classes(y))
    \/ TestCount(Len(y)) < Cardinality(Classes(y))

\* The (train, test) position sets of the classes cl, n_i rows of each class
\* for train and t_i for test, from one permutation of the class.
RECURSIVE ClassDraws(_, _, _, _, _)
ClassDraws(t, y, cl, n_i, t_i) ==
    IF cl = {} THEN {[train |-> {}, test |-> {}]}
    ELSE LET c == CHOOSE c \in cl : TRUE
         IN  UNION {UNION {{[train |-> tr \cup r.train, test |-> te \cup r.test] :
                                r \in ClassDraws(t, y, cl \ {c}, n_i, t_i)} :
                            te \in Draws(t, y, Where(y, c) \ tr, t_i[c])} :
                    tr \in Draws(t, y, Where(y, c), n_i[c])}

\* train_test_split without stratify: the first n_test rows of a permutation
\* are the test set, the n_train after them the train set.
PlainSplits(t, y) ==
    UNION {{[train |-> tr, test |-> te] :
                tr \in Draws(t, y, DOMAIN y \ te, TrainCount(Len(y)))} :
            te \in Draws(t, y, DOMAIN y, TestCount(Len(y)))}

\* A split that ignores stratify=labels.
UnstratifiedSplits(t, y) == PlainSplits(t, y)

\* train_test_split(..., stratify=labels): the splits it may return.
StratifiedSplits(t, y) ==
    LET cl == Classes(y)
        counts == [c \in cl |-> Count(y, c)]
    IN  UNION {UNION {ClassDraws(t, y, cl, n_i, t_i) :
                        t_i \in ApproximateMode(cl, [c \in cl |-> counts[c] - n_i[c]], TestCount(Len(y)))} :
                n_i \in ApproximateMode(cl, counts, TrainCount(Len(y)))}

\* Whether the split of the class c raises on the labels y.
SplitRaises(c, y) ==
    \/ TrainCount(Len(y)) = 0
    \/ c # "ExampleData" /\ StratifiedRaises(y)

\* Every class split without stratify.
SplitsAllPlain(c, t, y) == PlainSplits(t, y)

\* The test rows left in the train set as well.
SplitsOverlapping(c, t, y) ==
    {[train |-> sp.train \cup sp.test, test |-> sp.test] :
        sp \in IF c = "ExampleData" THEN PlainSplits(t, y) ELSE StratifiedSplits(t, y)}

Splits(c, t, y) == IF c = "ExampleData" THEN PlainSplits(t, y) ELSE StratifiedSplits(t, y)

train_split_data ==
    /\ \/ pc = "loaded" /\ cls # "CreditProcessor"
       \/ pc = "sampled"
    /\ IF SplitRaises(cls, labels)
         THEN /\ pc' = "failed"
              /\ err' = "ValueError"
              /\ UNCHANGED <<train_data, test_data, train_labels, test_labels>>
         ELSE /\ \E sp \in Splits(cls, data, labels) :
                    /\ train_data' = Take(data, sp.train)
                    /\ test_data' = Take(data, sp.test)
                    /\ train_labels' = Take(labels, sp.train)
                    /\ test_labels' = Take(labels, sp.test)
              /\ pc' = "split"
              /\ UNCHANGED err
    /\ UNCHANGED <<dataset_type, cls, file, raw_data, data, labels, min_val, max_val, scaler,
                   normal_train, normal_test, anom_train, anom_test, ret>>

(***************************************************************************)
(* _normalize.                                                             *)
(***************************************************************************)
\* The extrema fitted over train and test together.
FitMinMaxAll(train, test) ==
    LET v == {c.num : c \in Cells(train \o test)}
    IN  [min_val |-> CHOOSE a \in v : \A b \in v : a <= b,
         max_val |-> CHOOSE a \in v : \A b \in v : b <= a]

\* tf.reduce_min / tf.reduce_max over every cell of the training table (the
\* method reads self.train_data only; self.test_data is in its reach).
FitMinMax(train, test) ==
    LET v == {c.num : c \in Cells(train)}
    IN  [min_val |-> CHOOSE a \in v : \A b \in v : a <= b,
         max_val |-> CHOOSE a \in v : \A b \in v : b <= a]

\* x / (max_val - min_val): the shift by min_val forgotten.
ScaleMinMaxNoShift(c, lo, hi) ==
    Cast32([num |-> c.num, den |-> hi - lo, rad |-> 1, dtype |-> "float64"])

\* (x - min_val) / (max_val - min_val), then the cast to float32.
ScaleMinMax(c, lo, hi) ==
    Cast32([num |-> c.num - lo, den |-> hi - lo, rad |-> 1, dtype |-> "float64"])

\* (table - min_val) / (max_val - min_val), cell by cell, cast to float32.
ScaleTable(t, lo, hi) ==
    [i \in DOMAIN t |->
        [t[i] EXCEPT !.x = [j \in DOMAIN t[i].x |-> ScaleMinMax(t[i].x[j], lo, hi)]]]

\* The last column of a table as numbers: table[:, -1].
Amounts(t) == [i \in DOMAIN t |-> t[i].x[Len(t[i].x)].num]

RECURSIVE SumRange(_, _, _)
SumRange(f, lo, hi) ==
    IF lo > hi THEN 0
    ELSE IF lo = hi THEN f[lo]
    ELSE SumRange(f, lo, (lo + hi) \div 2) + SumRange(f, (lo + hi) \div 2 + 1, hi)

\* scaler.fit(train_amounts): the mean is sum / count and the variance
\* (count * sumsq - sum^2) / count^2.
FitScaler(train, test) ==
    LET a == Amounts(train)
    IN  [count |-> Len(a),
         sum   |-> SumRange(a, 1, Len(a)),
         sumsq |-> SumRange([i \in DOMAIN a |-> a[i] * a[i]], 1, Len(a))]

VarNum(st) == st.count * st.sumsq - st.sum * st.sum

\* scaler.transform of one amount: (x - mean) / scale, where scale is the
\* standard deviation, or 1 when the variance is zero.
Standardize(c, st) ==
    IF VarNum(st) = 0
        THEN [num |-> st.count * c.num - st.sum, den |-> st.count, rad |-> 1, dtype |-> "float64"]
        ELSE [num |-> st.count * c.num - st.sum, den |-> 1, rad |-> VarNum(st), dtype |-> "float64"]

\* table[:, -1] = scaler.transform(amounts), then the cast of the whole table.
StandardizeLast(t, st) ==
    [i \in DOMAIN t |->
        [t[i] EXCEPT !.x = [j \in DOMAIN t[i].x |->
            Cast32(IF j = Len(t[i].x) THEN Standardize(t[i].x[j], st) ELSE t[i].x[j])]]]

\* What _normalize of the class c leaves in the object.
Normalized(c, train, test) ==
    IF c = "CreditProcessor"
        THEN LET st == FitScaler(train, test)
             IN  [train_data |-> StandardizeLast(train, st),
                  test_data  |-> StandardizeLast(test, st),
                  min_val |-> 0, max_val |-> 0, scaler |-> st]
        ELSE LET mm == FitMinMax(train, test)
             IN  [train_data |-> ScaleTable(train, mm.min_val, mm.max_val),
                  test_data  |-> ScaleTable(test, mm.min_val, mm.max_val),
                  min_val |-> mm.min_val, max_val |-> mm.max_val, scaler |-> NoStats]

normalize ==
    /\ pc = "split"
    /\ LET r == Normalized(cls, train_data, test_data)
       IN  /\ train_data' = r.train_data
           /\ test_data' = r.test_data
           /\ min_val' = r.min_val
           /\ max_val' = r.max_val
           /\ scaler' = r.scaler
    /\ pc' = "normalized"
    /\ UNCHANGED <<dataset_type, cls, err, file, raw_data, data, labels, train_labels,
                   test_labels, normal_train, normal_test, anom_train, anom_test, ret>>

(***************************************************************************)
(* _split_normal_and_anomalies.                                            *)
(***************************************************************************)
\* The mask taken as label == 1.
TruthyIsOne(y) == {i \in DOMAIN y : y[i] = 1}

\* labels.astype(bool): the positions whose label is not zero.
Truthy(y) == {i \in DOMAIN y : y[i] # 0}

\* table[mask]
NormalRows(t, y) == Take(t, Truthy(y))

\* table[~mask]
AnomalyRows(t, y) == Take(t, DOMAIN y \ Truthy(y))

split_normal_and_anomalies ==
    /\ pc = "normalized"
    /\ normal_train' = NormalRows(train_data, train_labels)
    /\ normal_test' = NormalRows(test_data, test_labels)
    /\ anom_train' = AnomalyRows(train_data, train_labels)
    /\ anom_test' = AnomalyRows(test_data, test_labels)
    /\ pc' = "done"
    /\ UNCHANGED <<dataset_type, cls, err, file, raw_data, data, labels, train_data, test_data,
                   train_labels, test_labels, min_val, max_val, scaler, ret>>

(***************************************************************************)
(* get_normalized_data.                                                    *)
(***************************************************************************)
\* tensor.numpy() of a whole table.
WidenTable(t) ==
    [i \in DOMAIN t |-> [t[i] EXCEPT !.x = [j \in DOMAIN t[i].x |-> Widen(t[i].x[j])]]]

\* The tables stacked test first, the labels train first.
StackedTestFirst(train, test) == WidenTable(test \o train)

\* np.vstack((train.numpy(), test.numpy())) beside the float64 labels.
Stacked(train, test) == WidenTable(train \o test)

\* Both classes taken whole: no draw.
EvenDrawsWhole(x, y) == {[normal |-> Where(y, 0), anomaly |-> Where(y, 1)]}

\* The sets of positions of the stacked table that make evenly_distributed:
\* normal is the rows labelled 0 and anomaly the rows labelled 1, the larger
\* of the two drawn down to the size of the other.
EvenDraws(x, y) ==
    LET normal_idx == Where(y, 0)
        anomaly_idx == Where(y, 1)
    IN  IF Cardinality(normal_idx) > Cardinality(anomaly_idx)
            THEN {[normal |-> u, anomaly |-> anomaly_idx] :
                    u \in Draws(x, y, normal_idx, Cardinality(anomaly_idx))}
            ELSE {[normal |-> normal_idx, anomaly |-> u] :
                    u \in Draws(x, y, anomaly_idx, Cardinality(normal_idx))}

\* np.vstack((normal, anomaly)) of a vector or table v.
EvenlyDistributed(v, d) == Take(v, d.normal) \o Take(v, d.anomaly)

get_normalized_data ==
    /\ pc = "done"
    /\ cls \in {"ECGProcessor", "CreditProcessor"}
    /\ LET x_stacked == Stacked(train_data, test_data)
           y_stacked == train_labels \o test_labels
       IN  \E d \in EvenDraws(x_stacked, y_stacked) :
              ret' = [data   |-> EvenlyDistributed(x_stacked, d),
                      labels |-> EvenlyDistributed(y_stacked, d),
                      called |-> TRUE]
    /\ UNCHANGED <<pc, dataset_type, cls, err, file, raw_data, data, labels, train_data,
                   test_data, train_labels, test_labels, min_val, max_val, scaler,
                   normal_train, normal_test, anom_train, anom_test>>

Next ==
    \/ \E key \in Keys : data_factory(key)
    \/ ExampleDataNew
    \/ Load
    \/ under_sample
    \/ train_split_data
    \/ normalize
    \/ split_normal_and_anomalies
    \/ get_normalized_data

Spec == Init /\ [][Next]_vars

(***************************************************************************)
(* Properties.                                                             *)
(***************************************************************************)
PostSplit == pc \in {"split", "normalized", "done"}

PostNormalize == pc \in {"normalized", "done"}

\* The labels as the constructor first assigned them.
LoadedLabels == LoadLabels(cls, raw_data)

\* A table's rows as they were before _normalize.
RawOf(t) == [i \in DOMAIN t |-> LoadData(cls, raw_data)[t[i].id]]

Range(t) == {t[i] : i \in DOMAIN t}

NoRepeat(t) == Cardinality(Ids(t)) = Len(t)

\* C1, as claimed: after _under_sample every minority row is kept and the
\* minority class is 10% of the rows that remain (1000 and 50 rows leave 50
\* and 450).
C1_MinorityIsTenthOfTotal ==
    pc = "sampled" =>
        LET minority == MinorityClass(LoadedLabels)
        IN  /\ Count(labels, minority) = Count(LoadedLabels, minority)
            /\ SamplingDen * Count(labels, minority) = Len(labels)
            /\ file = FraudScenario => Count(labels, 0) = 50 /\ Count(labels, 1) = 450

\* C1, amended: after _under_sample every minority row is kept, only majority
\* rows are removed, and the majority class is left with 10 rows for each
\* minority row, so the minority is 1/11 of the rows that remain (1000 and 50
\* rows leave 50 and 500).
C1_MajorityIsTenTimesMinority ==
    pc = "sampled" =>
        LET minority == MinorityClass(LoadedLabels)
        IN  /\ {data[i].id : i \in Where(labels, minority)} = Where(LoadedLabels, minority)
            /\ Count(labels, minority) = Count(LoadedLabels, minority)
            /\ Ids(data) \subseteq DOMAIN raw_data
            /\ NoRepeat(data)
            /\ Len(labels) - Count(labels, minority) = SamplingDen * Count(labels, minority)
            /\ SamplingDen * Count(labels, minority) # Len(labels)
            /\ file = FraudScenario => Count(labels, 0) = 50 /\ Count(labels, 1) = 500

\* The fraud-like scenario under-sampled: rows were removed.
C1_Witness ==
    /\ pc = "sampled"
    /\ file = FraudScenario
    /\ Len(data) < Len(raw_data)

\* C2, as claimed: for 100 rows, 80 labelled 1 and 20 labelled 0, every split
\* of ExampleData and of ECGProcessor leaves 64 +-1 normal and 16 +-1 anomaly
\* training rows.
C2_EveryEcgSplitNear64And16 ==
    (file = EcgScenario /\ cls \in {"ECGProcessor", "ExampleData"} /\ pc = "done") =>
        /\ Len(normal_train) \in 63..65
        /\ Len(anom_train) \in 15..17

\* C2, amended: for that dataset the stratified split of ECGProcessor leaves
\* 64 normal and 16 anomaly training rows; the unstratified split of
\* ExampleData leaves 80 training rows of which 60 to 80 are normal.
C2_StratifiedSplitGives64And16 ==
    (file = EcgScenario /\ pc = "done") =>
        /\ cls = "ECGProcessor" => Len(normal_train) = 64 /\ Len(anom_train) = 16
        /\ cls = "ExampleData" =>
              /\ Len(normal_train) \in 60..80
              /\ Len(normal_train) + Len(anom_train) = 80

\* The scenario through ECGProcessor, partitioned.
C2_Witness ==
    /\ file = EcgScenario
    /\ cls = "ECGProcessor"
    /\ pc = "done"
    /\ Len(normal_train) = 64

\* C3: get_normalized_data returns as many rows labelled 0 as rows labelled 1,
\* each as many as the smaller of the two classes of train+test has, whichever
\* class is the larger.
C3_ExactParity ==
    ret.called =>
        LET y == train_labels \o test_labels
            k == Min2(Count(y, 0), Count(y, 1))
        IN  /\ Count(ret.labels, 0) = k
            /\ Count(ret.labels, 1) = k
            /\ Len(ret.labels) = 2 * k
            /\ Len(ret.data) = 2 * k

\* The rows labelled 0 are the larger class and were drawn down.
C3_Witness ==
    /\ ret.called
    /\ Count(train_labels \o test_labels, 0) > Count(train_labels \o test_labels, 1)
    /\ Count(ret.labels, 1) > 0

\* The values a perturbed test cell may take.
PerturbValues == {-3, 5}

\* Test tables that differ from t: every cell changed, or the cells of its
\* first or of its last row.
AltTests(t) ==
    {[i \in DOMAIN t |-> [t[i] EXCEPT !.x = [j \in DOMAIN t[i].x |-> Raw(v)]]] : v \in PerturbValues}
    \cup {[t EXCEPT ![i] = [t[i] EXCEPT !.x = [j \in DOMAIN t[i].x |-> Raw(v)]]] :
            i \in {1, Len(t)}, v \in PerturbValues}

\* The statistics held by the object applied to a raw table.
ApplyFrozen(t) ==
    IF cls = "CreditProcessor" THEN StandardizeLast(t, scaler)
    ELSE ScaleTable(t, min_val, max_val)

\* C4: the fitted statistics and the normalized train table are those of the
\* train partition alone: a run with the same train partition and any other
\* test partition fits the same min_val, max_val and scaler and normalizes
\* train to the same table, and each test table is scaled by these statistics.
C4_StatisticsFromTrainOnly ==
    PostNormalize =>
        /\ test_data = ApplyFrozen(RawOf(test_data))
        /\ \A alt \in AltTests(RawOf(test_data)) :
              LET other == Normalized(cls, RawOf(train_data), alt)
              IN  /\ other.min_val = min_val
                  /\ other.max_val = max_val
                  /\ other.scaler = scaler
                  /\ other.train_data = train_data
                  /\ other.test_data = ApplyFrozen(alt)

\* A test cell above the train maximum: fitting on it would change max_val.
C4_Witness ==
    /\ PostNormalize
    /\ cls = "ECGProcessor"
    /\ \E c \in Cells(RawOf(test_data)) : c.num > max_val

\* C5: the normal and the anomaly group of each partition share no row and
\* together hold exactly its rows, the four groups are disjoint, and a row is
\* in the normal group exactly when its label is not zero.
C5_GroupsPartition ==
    pc = "done" =>
        /\ Ids(normal_train) \cap Ids(anom_train) = {}
        /\ Ids(normal_test) \cap Ids(anom_test) = {}
        /\ (Ids(normal_train) \cup Ids(anom_train)) \cap (Ids(normal_test) \cup Ids(anom_test)) = {}
        /\ Range(normal_train) \cup Range(anom_train) = Range(train_data)
        /\ Range(normal_test) \cup Range(anom_test) = Range(test_data)
        /\ Len(normal_train) + Len(anom_train) = Len(train_data)
        /\ Len(normal_test) + Len(anom_test) = Len(test_data)
        /\ NoRepeat(normal_train) /\ NoRepeat(anom_train)
        /\ NoRepeat(normal_test) /\ NoRepeat(anom_test)
        /\ \A i \in DOMAIN train_data :
              /\ train_data[i] \in Range(normal_train) <=> train_labels[i] # 0
              /\ train_data[i] \in Range(anom_train) <=> train_labels[i] = 0
        /\ \A i \in DOMAIN test_data :
              /\ test_data[i] \in Range(normal_test) <=> test_labels[i] # 0
              /\ test_data[i] \in Range(anom_test) <=> test_labels[i] = 0

\* Both training groups are inhabited and a label other than 0 and 1 is in.
C5_Witness ==
    /\ pc = "done"
    /\ normal_train # <<>>
    /\ anom_train # <<>>
    /\ \E i \in DOMAIN train_labels : train_labels[i] = 2

\* C6: train and test are disjoint, hold every row given to the split exactly
\* once, their row counts add up to the input's, and test takes 20% of the
\* rows (rounded up to a whole row).
C6_SplitPartitionsRows ==
    PostSplit =>
        /\ Ids(train_data) \cap Ids(test_data) = {}
        /\ Ids(train_data) \cup Ids(test_data) = Ids(data)
        /\ NoRepeat(train_data)
        /\ NoRepeat(test_data)
        /\ Len(train_data) + Len(test_data) = Len(data)
        /\ Range(RawOf(train_data)) \cup Range(RawOf(test_data)) = Range(data)
        /\ TestSizeDen * Len(test_data) >= Len(data)
        /\ TestSizeDen * (Len(test_data) - 1) < Len(data)

\* The fraud pipeline split the rows left by the under-sampling.
C6_Witness ==
    /\ pc = "split"
    /\ cls = "CreditProcessor"
    /\ Len(data) < Len(raw_data)
    /\ Len(test_data) > 0

\* |a - b|
Dist(a, b) == IF a >= b THEN a - b ELSE b - a

\* C7: after the stratified split the share of each label in train and in
\* test is its share in the split's input, to within one row.
C7_StratifiedSharesPreserved ==
    (PostSplit /\ cls \in {"ECGProcessor", "CreditProcessor"}) =>
        \A l \in Classes(labels) :
            /\ Dist(Count(train_labels, l) * Len(labels), Count(labels, l) * Len(train_labels)) < Len(labels)
            /\ Dist(Count(test_labels, l) * Len(labels), Count(labels, l) * Len(test_labels)) < Len(labels)

\* A rounding tie: 2 of 8 rows are labelled 0 and both went to train.
C7_Witness ==
    /\ pc = "split"
    /\ cls = "ECGProcessor"
    /\ file = TieFile
    /\ Count(train_labels, 0) = 2

\* C8: data_factory starts an ECGProcessor for 'ecg_data' and a
\* CreditProcessor for 'creditcard_data'; for any other key it raises
\* FileNotFoundError with no object, nothing read and nothing assigned.
C8_FactoryDispatch ==
    /\ dataset_type = "ecg_data" => cls = "ECGProcessor"
    /\ dataset_type = "creditcard_data" => cls = "CreditProcessor"
    /\ (dataset_type # "" /\ dataset_type \notin DOMAIN data_type_map) =>
          /\ pc = "failed"
          /\ err = "FileNotFoundError"
          /\ cls = "none"
          /\ raw_data = <<>> /\ data = <<>> /\ labels = <<>>
          /\ train_data = <<>> /\ test_data = <<>>
          /\ normal_train = <<>> /\ anom_train = <<>>
    /\ err = "FileNotFoundError" => dataset_type \notin DOMAIN data_type_map

\* The factory was called with a key it does not map.
C8_Witness ==
    /\ dataset_type = "ecg"
    /\ err = "FileNotFoundError"

\* C9, as claimed: after the min-max normalization every training cell is in
\* [0, 1], whatever the training table.
C9_TrainCellsInUnitAlways ==
    (PostNormalize /\ cls \in {"ECGProcessor", "ExampleData"}) =>
        \A c \in Cells(train_data) : InUnit(c)

\* C9, amended: after the min-max normalization every training cell is in
\* [0, 1] when the training table holds two different values; when all its
\* cells are equal every training cell is 0/0.
C9_TrainCellsInUnitWhenRangeNonzero ==
    (PostNormalize /\ cls \in {"ECGProcessor", "ExampleData"}) =>
        /\ max_val > min_val => \A c \in Cells(train_data) : InUnit(c)
        /\ max_val = min_val => \A c \in Cells(train_data) : c.num = 0 /\ c.den = 0
        /\ max_val >= min_val

\* Train cells span a range and a test cell lies outside [0, 1].
C9_Witness ==
    /\ PostNormalize
    /\ cls = "ECGProcessor"
    /\ max_val > min_val
    /\ \E c \in Cells(test_data) : ~InUnit(c)

\* The label vector y has a label for each row of t: the one the row was
\* loaded with.
Aligned(t, y) ==
    /\ Len(t) = Len(y)
    /\ \A i \in DOMAIN t : y[i] = LoadedLabels[t[i].id]

\* C10: at every stage each table has as many rows as its label vector and
\* row i carries the label it was loaded with: data, train_data, test_data
\* and the pair get_normalized_data returns.
C10_TablesAlignedWithLabels ==
    /\ Aligned(data, labels)
    /\ Aligned(train_data, train_labels)
    /\ Aligned(test_data, test_labels)
    /\ Aligned(ret.data, ret.labels)

\* The fraud pipeline ran every stage and get_normalized_data returned rows.
C10_Witness ==
    /\ ret.called
    /\ cls = "CreditProcessor"
    /\ Len(data) < Len(raw_data)
    /\ Len(ret.data) > 0

====
